---- MODULE Spec2Model ----
(***************************************************************************)
(* Model of the commit-statistics engine of oss-stats-dashboard.           *)
(*                                                                         *)
(* The repository holds three generations of update.js:                    *)
(*   src/unnamed/part_000        aggregate               (suffix _p0)      *)
(*   src/update.js   1..369      aggregateInsightsStyle                    *)
(*   src/update.js 371..760      aggregateYear                             *)
(* Each has its own bot classifier.  All three are modelled side by side   *)
(* and are applied to the same fetched commit sequence.                    *)
(*                                                                         *)
(* Spec, SpecOnce and SpecIdentity hand pages of commits to the three      *)
(* aggregators.  SpecMain runs one of the three programs from its first    *)
(* statement to its last writeFile against a server that answers page by   *)
(* page and may fail any request; SpecMainFair adds that every request for *)
(* a page is answered.                                                     *)
(*                                                                         *)
(* Strings are sequences of one-character strings, so that the regular     *)
(* expressions of BOT_PATTERNS (anchors, word boundaries, /i) and the      *)
(* join(" ") of looksLikeBot are computed, not assumed.  A field that is   *)
(* null, undefined or "" in JavaScript is the empty sequence: every use in *)
(* the source (||, !x, filter(Boolean), &&) treats the three alike.        *)
(***************************************************************************)
EXTENDS Integers, Sequences, FiniteSets, TLC

VARIABLES
  commits,  \* the commit array handed to the aggregators (c2024/c2025, commits)
  pages,    \* number of pages pushed into commits so far
  now,      \* what new Date() gave when the process started
  args,     \* arguments of the aggregation: year, monthsCount, repoFull
  runs,     \* what the aggregators returned, one entry per process run
  pc,       \* "fetch" | "done" | "restarted"
  REPO_DENY, \* the module-level object REPO_DENY, which loadExternalDeny extends
  \* the whole program, from loadExternalDeny to the last writeFile:
  gen,      \* which update.js runs: "part_000" | "insights" | "yearly"
  remote,   \* the commit history the server holds, by repository slug
  botsFile, \* what fs.readFile("./bots.json") finds
  step,     \* where main stands
  proj,     \* index into PROJECTS of the project of the current iteration
  url,      \* number of the page the next request of the fetch asks for
  out,      \* the local array out / items of ghPaginated
  cA, cB,   \* commits2024 / c2024 / commits, and commits2025 / c2025
  yA, yB,   \* y2024 / a2024 / statsA and y2025 / a2025 / statsB (none: <<>>)
  meta,     \* the repository metadata of the current project (none: <<>>)
  results,  \* the array results
  verify,   \* the array verify
  docs,     \* the directory docs has been made by this process
  files,    \* the files this process has written, in order
  log,      \* requests issued, fetches returned, aggregations, pushes, in order
  error     \* the Error main was rejected with (none: <<>>)

aggVars == <<commits, pages, args, runs, pc>>
mainVars == <<gen, remote, botsFile, step, proj, url, out, cA, cB, yA, yB, meta,
              results, verify, docs, files, log, error>>
vars == <<commits, pages, now, args, runs, pc, REPO_DENY, gen, remote, botsFile,
          step, proj, url, out, cA, cB, yA, yB, meta, results, verify, docs,
          files, log, error>>

(* ------------------------------ bounds -------------------------------- *)

\* Number of pages one fetch delivers at most.
MaxPages == 2

\* Longest input of which every permutation is compared.
MaxPermuted == 3

\* Commits per page of the server's answers (per_page=100, scaled down).
PerPage == 2

(* ---------------------------- characters ------------------------------ *)

LowerLetters ==
  {"a","b","c","d","e","f","g","h","i","j","k","l","m",
   "n","o","p","q","r","s","t","u","v","w","x","y","z"}

UpperToLower ==
  ("A" :> "a") @@ ("B" :> "b") @@ ("C" :> "c") @@ ("D" :> "d") @@
  ("E" :> "e") @@ ("F" :> "f") @@ ("G" :> "g") @@ ("H" :> "h") @@
  ("I" :> "i") @@ ("J" :> "j") @@ ("K" :> "k") @@ ("L" :> "l") @@
  ("M" :> "m") @@ ("N" :> "n") @@ ("O" :> "o") @@ ("P" :> "p") @@
  ("Q" :> "q") @@ ("R" :> "r") @@ ("S" :> "s") @@ ("T" :> "t") @@
  ("U" :> "u") @@ ("V" :> "v") @@ ("W" :> "w") @@ ("X" :> "x") @@
  ("Y" :> "y") @@ ("Z" :> "z")

Digits == {"0","1","2","3","4","5","6","7","8","9"}

\* String.prototype.toLowerCase / the i flag, one character at a time.
Lower(ch) == IF ch \in DOMAIN UpperToLower THEN UpperToLower[ch] ELSE ch

toLowerCase(s) == [i \in 1..Len(s) |-> Lower(s[i])]

\* \w of a JavaScript regular expression without the u flag.
IsWordChar(ch) == Lower(ch) \in LowerLetters \cup Digits \cup {"_"}

\* s holds lit at position i, letter case ignored.
HasAt(s, lit, i) ==
  /\ i >= 1
  /\ i + Len(lit) - 1 <= Len(s)
  /\ \A k \in 1..Len(lit) : Lower(s[i + k - 1]) = Lower(lit[k])

\* /lit$/i
EndsWith(s, lit) == HasAt(s, lit, Len(s) - Len(lit) + 1)

\* /^lit/i
StartsWith(s, lit) == HasAt(s, lit, 1)

\* /lit/ (unanchored)
Contains(s, lit) == \E i \in 1..Len(s) : HasAt(s, lit, i)

\* /\blit\b/i for a literal that starts and ends with a word character: the
\* character before the match and the one after it are absent or not \w.
WordMatch(s, lit) ==
  \E i \in 1..Len(s) :
    /\ HasAt(s, lit, i)
    /\ (i = 1 \/ ~IsWordChar(s[i - 1]))
    /\ (i + Len(lit) - 1 = Len(s) \/ ~IsWordChar(s[i + Len(lit)]))

\* One regular expression of BOT_PATTERNS applied with rx.test(s).
RxTest(rx, s) ==
  CASE rx.kind = "suffix" -> EndsWith(s, rx.lit)
    [] rx.kind = "prefix" -> StartsWith(s, rx.lit)
    [] rx.kind = "word"   -> WordMatch(s, rx.lit)

Suffix(lit) == [kind |-> "suffix", lit |-> lit]
Prefix(lit) == [kind |-> "prefix", lit |-> lit]
Word(lit)   == [kind |-> "word", lit |-> lit]

\* [login, name, email].filter(Boolean).join(" ")
RECURSIVE JoinSpace(_)
JoinSpace(parts) ==
  IF Len(parts) = 0 THEN <<>>
  ELSE IF Len(Head(parts)) = 0 THEN JoinSpace(Tail(parts))
  ELSE LET rest == JoinSpace(Tail(parts))
       IN IF Len(rest) = 0 THEN Head(parts) ELSE Head(parts) \o <<" ">> \o rest

(* ------------------------- bot classifiers ---------------------------- *)

s_bot_suffix == <<"[","b","o","t","]">>
s_dash_bot == <<"-","b","o","t">>
s_bot_dash == <<"b","o","t","-">>
s_bot == <<"b","o","t">>
s_unknown == <<"u","n","k","n","o","w","n">>

\* The \b...\b patterns shared by both BOT_PATTERNS lists; [-_ ]? is written
\* out as its four alternatives.
WordLiterals ==
  { <<"d","e","p","e","n","d","a","b","o","t">>,
    <<"g","i","t","h","u","b","-","a","c","t","i","o","n","s">>,
    <<"r","e","n","o","v","a","t","e">>,
    <<"p","r","e","-","c","o","m","m","i","t","-","c","i">>,
    <<"s","e","m","a","n","t","i","c","-","r","e","l","e","a","s","e">>,
    <<"p","e","r","c","y">>,
    <<"s","n","y","k">>,
    <<"a","u","t","o","m","e","r","g","e">>,
    <<"a","u","t","o","-","m","e","r","g","e">>,
    <<"a","u","t","o","_","m","e","r","g","e">>,
    <<"a","u","t","o"," ","m","e","r","g","e">>,
    <<"a","u","t","o","m","a","t","i","o","n">>,
    <<"r","e","l","e","a","s","e","b","o","t">>,
    <<"r","e","l","e","a","s","e","-","b","o","t">>,
    <<"r","e","l","e","a","s","e","_","b","o","t">>,
    <<"r","e","l","e","a","s","e"," ","b","o","t">> }

BOT_PATTERNS_p0 ==
  {Suffix(s_bot_suffix), Suffix(s_dash_bot), Prefix(s_bot_dash)}
    \cup {Word(w) : w \in WordLiterals}

BOT_PATTERNS ==
  {Suffix(s_bot_suffix), Suffix(s_dash_bot), Prefix(s_bot_dash)}
    \cup {Word(w) : w \in WordLiterals}
    \cup {Word(<<"c","o","p","i","l","o","t">>)}

PLAYWRIGHT == "microsoft/playwright"
SELENIUM == "SeleniumHQ/selenium"
JMETER == "apache/jmeter"
CYPRESS == "cypress-io/cypress"

\* The object literal REPO_DENY is initialised with.
REPO_DENY_literal ==
  (SELENIUM :> { <<"s","e","l","e","n","i","u","m","-","c","i">>,
                 <<"r","e","n","o","v","a","t","e","[","b","o","t","]">> })
  @@
  (PLAYWRIGHT :> { <<"m","i","c","r","o","s","o","f","t","-","p","l","a","y","w","r","i","g","h","t","-","a","u","t","o","m","a","t","i","o","n","[","b","o","t","]">>,
                   <<"p","l","a","y","w","r","i","g","h","t","m","a","c","h","i","n","e">>,
                   <<"g","i","t","h","u","b","-","a","c","t","i","o","n","s","[","b","o","t","]">>,
                   <<"d","e","p","e","n","d","a","b","o","t","[","b","o","t","]">>,
                   <<"C","o","p","i","l","o","t">> })

\* part_000: one field at a time.
looksLikeBot_p0(loginOrNameOrEmail) ==
  IF Len(loginOrNameOrEmail) = 0 THEN FALSE
  ELSE \E rx \in BOT_PATTERNS_p0 : RxTest(rx, loginOrNameOrEmail)

\* looksLikeBot with the deny-list compared without regard to letter case
looksLikeBot_ignoreCase(repoFull, login, name, email) ==
  LET repoList == IF repoFull \in DOMAIN REPO_DENY THEN REPO_DENY[repoFull] ELSE {}
      s == JoinSpace(<<login, name, email>>)
  IN IF Len(login) > 0 /\ \E e \in repoList : toLowerCase(e) = toLowerCase(login) THEN TRUE
     ELSE \E rx \in BOT_PATTERNS : RxTest(rx, s)

\* update.js: deny-list on the login, then the patterns on the joined fields.
looksLikeBot(repoFull, login, name, email) ==
  LET repoList == IF repoFull \in DOMAIN REPO_DENY THEN REPO_DENY[repoFull] ELSE {}
      s == JoinSpace(<<login, name, email>>)
  IN IF Len(login) > 0 /\ login \in repoList THEN TRUE
     ELSE \E rx \in BOT_PATTERNS : RxTest(rx, s)

isBotCommit(c) ==
  LET login == c.login
      authorType == c.type
      name == toLowerCase(c.name)
      email == toLowerCase(c.email)
  IN IF authorType = "Bot" THEN TRUE
     ELSE IF EndsWith(login, s_bot_suffix) THEN TRUE
     ELSE IF Contains(name, s_bot) THEN TRUE
     ELSE IF Contains(email, s_bot) THEN TRUE
     ELSE FALSE

\* authorId with the email tried before the login
authorId_emailFirst(c) ==
  IF Len(c.email) > 0 THEN c.email
  ELSE IF Len(c.login) > 0 THEN c.login
  ELSE IF Len(c.name) > 0 THEN c.name
  ELSE s_unknown

\* login || email || name || "unknown"
authorId(c) ==
  IF Len(c.login) > 0 THEN c.login
  ELSE IF Len(c.email) > 0 THEN c.email
  ELSE IF Len(c.name) > 0 THEN c.name
  ELSE s_unknown

(* ------------------------------ dates --------------------------------- *)

\* A timestamp is what new Date(iso) yields for the UTC ("...Z") strings of the
\* commits API: year, month as getUTCMonth gives it (0..11), day of the month
\* and second of the day.  NoDate is a missing date field.
Date(y, m, d, s) == [has |-> TRUE, year |-> y, month |-> m, day |-> d, sec |-> s]
NoDate == [has |-> FALSE, year |-> 0, month |-> 0, day |-> 0, sec |-> 0]

\* Date.UTC(2025, 9, 31, 23, 59, 59)
YTD_CUTOFF == Date(2025, 9, 31, 86399)

\* a <= b on timestamps
NotAfter(a, b) ==
  \/ a.year < b.year
  \/ a.year = b.year /\ a.month < b.month
  \/ a.year = b.year /\ a.month = b.month /\ a.day < b.day
  \/ a.year = b.year /\ a.month = b.month /\ a.day = b.day /\ a.sec <= b.sec

\* const NOW = new Date(), read once when the module is loaded
NOW == now

monthsElapsedInYear(y, refDate) ==
  IF y < refDate.year THEN 12
  ELSE IF y > refDate.year THEN 0
  ELSE refDate.month + 1

(* ----------------------------- helpers -------------------------------- *)

Min(a, b) == IF a <= b THEN a ELSE b

\* Array.from({ length: 12 }, () => 0), indexed like getUTCMonth
ZeroMonths == [m \in 0..11 |-> 0]

\* map.set(key, (map.get(key) || 0) + 1) on a Map, which iterates in insertion
\* order: a sequence of entries, a known key updated in place, a new one added
\* at the end.
MapInc(map, key) ==
  IF \E i \in 1..Len(map) : map[i].key = key
  THEN [i \in 1..Len(map) |->
          IF map[i].key = key THEN [map[i] EXCEPT !.n = @ + 1] ELSE map[i]]
  ELSE Append(map, [key |-> key, n |-> 1])

\* set.add(key) on a Set
SetAdd(set, key) ==
  IF \E i \in 1..Len(set) : set[i] = key THEN set ELSE Append(set, key)

\* [...map.values()].reduce((a,b)=>a+b,0)
RECURSIVE SumValues(_)
SumValues(map) ==
  IF Len(map) = 0 THEN 0 ELSE Head(map).n + SumValues(Tail(map))

\* Insert e into a list sorted by n descending, behind every entry with n >= e.n.
RECURSIVE InsertDesc(_, _)
InsertDesc(sorted, e) ==
  IF Len(sorted) = 0 THEN <<e>>
  ELSE IF Head(sorted).n >= e.n THEN <<Head(sorted)>> \o InsertDesc(Tail(sorted), e)
  ELSE <<e>> \o sorted

\* Insert e ahead of the entries with the same n: a sort that is not stable.
RECURSIVE InsertDescAhead(_, _)
InsertDescAhead(sorted, e) ==
  IF Len(sorted) = 0 THEN <<e>>
  ELSE IF Head(sorted).n > e.n THEN <<Head(sorted)>> \o InsertDescAhead(Tail(sorted), e)
  ELSE <<e>> \o sorted

RECURSIVE sortByCommitsDesc_unstable(_)
sortByCommitsDesc_unstable(entries) ==
  IF Len(entries) = 0 THEN <<>>
  ELSE InsertDescAhead(sortByCommitsDesc_unstable(SubSeq(entries, 1, Len(entries) - 1)),
                       entries[Len(entries)])

\* entries.sort((a,b) => b[1]-a[1]): Array.prototype.sort is stable, so entries
\* with equal counts keep their insertion order.
RECURSIVE sortByCommitsDesc(_)
sortByCommitsDesc(entries) ==
  IF Len(entries) = 0 THEN <<>>
  ELSE InsertDesc(sortByCommitsDesc(SubSeq(entries, 1, Len(entries) - 1)),
                  entries[Len(entries)])

\* topFive without the sort: the first five entries in insertion order
topFive_unsorted(map) ==
  LET cut == SubSeq(map, 1, Min(5, Len(map)))
  IN [i \in 1..Len(cut) |-> [author |-> cut[i].key, commits |-> cut[i].n]]

\* [...map.entries()].sort(...).slice(0,5).map(([author, commits]) => ({author, commits}))
topFive(map) ==
  LET sorted == sortByCommitsDesc(map)
      cut == SubSeq(sorted, 1, Min(5, Len(sorted)))
  IN [i \in 1..Len(cut) |-> [author |-> cut[i].key, commits |-> cut[i].n]]

\* roundedAverage with the hundredths cut off instead of rounded
roundedAverage_truncated(total, monthsCount) ==
  IF monthsCount = 0
  THEN [kind |-> IF total = 0 THEN "NaN" ELSE "Infinity", cents |-> 0]
  ELSE [kind |-> "number", cents |-> (100 * total) \div monthsCount]

\* Math.round((total / monthsCount) * 100) / 100, kept in hundredths.
\* Math.round rounds halves up; a zero divisor gives Infinity, or NaN for 0/0.
roundedAverage(total, monthsCount) ==
  IF monthsCount = 0
  THEN [kind |-> IF total = 0 THEN "NaN" ELSE "Infinity", cents |-> 0]
  ELSE [kind |-> "number", cents |-> (200 * total + monthsCount) \div (2 * monthsCount)]

(* ---------------------- part_000: aggregate --------------------------- *)

\* c.commit?.author?.date || c.commit?.committer?.date
whenOf(c) == IF c.adate.has THEN c.adate ELSE c.cdate

\* aggregate_step_p0 with total += 1 moved above the date checks
aggregate_step_p0_countFirst(st, c, year) ==
  LET when == whenOf(c)
      first == [st EXCEPT !.total = @ + 1]
  IN
  IF ~when.has THEN first
  ELSE IF when.year # year THEN first
  ELSE
    LET counted == [first EXCEPT !.monthly[when.month] = @ + 1]
    IN IF looksLikeBot_p0(c.login) \/ looksLikeBot_p0(c.name) \/ looksLikeBot_p0(c.email)
       THEN counted
       ELSE [counted EXCEPT !.byAuthor = MapInc(@, authorId(c))]

\* aggregate_step_p0 without the bot check before byAuthor.set
aggregate_step_p0_noBotCheck(st, c, year) ==
  LET when == whenOf(c) IN
  IF ~when.has THEN st
  ELSE IF when.year # year THEN st
  ELSE [st EXCEPT !.total = @ + 1, !.monthly[when.month] = @ + 1,
                  !.byAuthor = MapInc(@, authorId(c))]

\* aggregate_step_p0 with the bot check moved above total += 1
aggregate_step_p0_botsSkipped(st, c, year) ==
  LET when == whenOf(c) IN
  IF ~when.has THEN st
  ELSE IF when.year # year THEN st
  ELSE IF looksLikeBot_p0(c.login) \/ looksLikeBot_p0(c.name) \/ looksLikeBot_p0(c.email)
  THEN st
  ELSE [st EXCEPT !.total = @ + 1, !.monthly[when.month] = @ + 1,
                  !.byAuthor = MapInc(@, authorId(c))]

\* aggregate_step_p0 with a parents-length filter
aggregate_step_p0_skipMerges(st, c, year) ==
  LET when == whenOf(c) IN
  IF ~when.has THEN st
  ELSE IF when.year # year THEN st
  ELSE IF c.parents > 1 THEN st
  ELSE
    LET counted == [st EXCEPT !.total = @ + 1, !.monthly[when.month] = @ + 1]
    IN IF looksLikeBot_p0(c.login) \/ looksLikeBot_p0(c.name) \/ looksLikeBot_p0(c.email)
       THEN counted
       ELSE [counted EXCEPT !.byAuthor = MapInc(@, authorId(c))]

\* aggregate_step_p0 without the comparison of the year
aggregate_step_p0_anyYear(st, c, year) ==
  LET when == whenOf(c) IN
  IF ~when.has THEN st
  ELSE
    LET counted == [st EXCEPT !.total = @ + 1, !.monthly[when.month] = @ + 1]
        id == authorId(c)
    IN IF looksLikeBot_p0(c.login) \/ looksLikeBot_p0(c.name) \/ looksLikeBot_p0(c.email)
       THEN counted
       ELSE [counted EXCEPT !.byAuthor = MapInc(@, id)]

\* One iteration of the for loop of aggregate.
aggregate_step_p0(st, c, year) ==
  LET when == whenOf(c) IN
  IF ~when.has THEN st
  ELSE IF when.year # year THEN st
  ELSE
    LET counted == [st EXCEPT !.total = @ + 1, !.monthly[when.month] = @ + 1]
        login == c.login
        name == c.name
        email == c.email
        id == authorId(c)
    IN IF looksLikeBot_p0(login) \/ looksLikeBot_p0(name) \/ looksLikeBot_p0(email)
       THEN counted
       ELSE [counted EXCEPT !.byAuthor = MapInc(@, id)]

RECURSIVE aggregate_loop_p0(_, _, _)
aggregate_loop_p0(st, cs, year) ==
  IF Len(cs) = 0 THEN st
  ELSE aggregate_loop_p0(aggregate_step_p0(st, Head(cs), year), Tail(cs), year)

\* aggregate with the divisor taken from the clock instead of monthsCount
aggregate_p0_elapsed(cs, monthsCount, year) ==
  LET st == aggregate_loop_p0(
              [monthly |-> ZeroMonths, byAuthor |-> <<>>, total |-> 0], cs, year)
  IN [total |-> st.total,
      monthly |-> st.monthly,
      avg |-> roundedAverage(st.total, monthsElapsedInYear(year, NOW)),
      unique |-> Len(st.byAuthor),
      top |-> topFive(st.byAuthor)]

aggregate_p0(cs, monthsCount, year) ==
  LET st == aggregate_loop_p0(
              [monthly |-> ZeroMonths, byAuthor |-> <<>>, total |-> 0], cs, year)
  IN [total |-> st.total,
      monthly |-> st.monthly,
      avg |-> roundedAverage(st.total, monthsCount),
      unique |-> Len(st.byAuthor),
      top |-> topFive(st.byAuthor)]

(* ---------------- update.js: aggregateInsightsStyle ------------------- *)

\* One iteration of the for loop of aggregateInsightsStyle.
aggregateInsightsStyle_step(st, c, repoFull, year) ==
  LET when == whenOf(c) IN
  IF ~when.has THEN st
  ELSE IF when.year # year THEN st
  ELSE
    LET m == when.month
        login == c.login
        name == c.name
        email == c.email
        key == authorId(c)
        all == [st EXCEPT !.monthlyAll[m] = @ + 1,
                          !.byAuthorAll = MapInc(@, key)]
    IN IF ~looksLikeBot(repoFull, login, name, email)
       THEN [all EXCEPT !.monthlyHuman[m] = @ + 1,
                        !.byAuthorHuman = MapInc(@, key)]
       ELSE all

RECURSIVE aggregateInsightsStyle_loop(_, _, _, _)
aggregateInsightsStyle_loop(st, cs, repoFull, year) ==
  IF Len(cs) = 0 THEN st
  ELSE aggregateInsightsStyle_loop(
         aggregateInsightsStyle_step(st, Head(cs), repoFull, year),
         Tail(cs), repoFull, year)

aggregateInsightsStyle(cs, repoFull, monthsCount, year) ==
  LET st == aggregateInsightsStyle_loop(
              [monthlyAll |-> ZeroMonths, monthlyHuman |-> ZeroMonths,
               byAuthorAll |-> <<>>, byAuthorHuman |-> <<>>],
              cs, repoFull, year)
      totalAll == SumValues(st.byAuthorAll)
      totalHuman == SumValues(st.byAuthorHuman)
  IN [human |-> [total |-> totalHuman,
                 monthly |-> st.monthlyHuman,
                 avg |-> roundedAverage(totalHuman, monthsCount),
                 unique |-> Len(st.byAuthorHuman),
                 top |-> topFive(st.byAuthorHuman)],
      all |-> [total |-> totalAll,
               monthly |-> st.monthlyAll,
               avg |-> roundedAverage(totalAll, monthsCount),
               unique |-> Len(st.byAuthorAll)]]

(* --------------------- update.js: aggregateYear ----------------------- *)

\* commits.filter(c => { const t = c.commit?.author?.date; ... })
RECURSIVE filterYear(_, _)
filterYear(cs, year) ==
  IF Len(cs) = 0 THEN <<>>
  ELSE LET t == Head(cs).adate
           keep == IF ~t.has THEN FALSE ELSE t.year = year
       IN IF keep THEN <<Head(cs)>> \o filterYear(Tail(cs), year)
          ELSE filterYear(Tail(cs), year)

\* for (const c of list) monthly[d.getUTCMonth()]++
RECURSIVE monthlyOf(_, _)
monthlyOf(monthly, list) ==
  IF Len(list) = 0 THEN monthly
  ELSE monthlyOf([monthly EXCEPT ![Head(list).adate.month] = @ + 1], Tail(list))

\* for (const c of list) if (!isBotCommit(c)) devs.add(authorId(c))
RECURSIVE devsOf(_, _)
devsOf(devs, list) ==
  IF Len(list) = 0 THEN devs
  ELSE devsOf(IF ~isBotCommit(Head(list)) THEN SetAdd(devs, authorId(Head(list)))
              ELSE devs,
              Tail(list))

\* for (const c of list) { if (isBotCommit(c)) continue; counts.set(...) }
RECURSIVE countsOf(_, _)
countsOf(counts, list) ==
  IF Len(list) = 0 THEN counts
  ELSE countsOf(IF isBotCommit(Head(list)) THEN counts
                ELSE MapInc(counts, authorId(Head(list))),
                Tail(list))

aggregateYear(cs, year) ==
  LET list == filterYear(cs, year)
      totalCommits == Len(list)
      monthly == monthlyOf(ZeroMonths, list)
      devs == devsOf(<<>>, list)
      uniqueDevs == Len(devs)
      elapsed0 == monthsElapsedInYear(year, NOW)
      elapsed == IF elapsed0 = 0 THEN 12 ELSE elapsed0
      avgPerMonth == IF elapsed # 0 THEN roundedAverage(totalCommits, elapsed)
                     ELSE [kind |-> "number", cents |-> 0]
      counts == countsOf(<<>>, list)
      top == topFive(counts)
  IN [totalCommits |-> totalCommits,
      monthly |-> monthly,
      avgPerMonth |-> avgPerMonth,
      uniqueDevs |-> uniqueDevs,
      top |-> top]

(* --------------------------- the input -------------------------------- *)

s_al == <<"a","l">>
s_bo == <<"b","o">>
s_cy == <<"c","y">>
s_di == <<"d","i">>
s_ed == <<"e","d">>
s_fy == <<"f","y">>
s_gus == <<"g","u","s">>
s_hal == <<"h","a","l">>
s_Al == <<"A","l">>
s_x_bot == <<"x","-","b","o","t">>
s_ci_bot == <<"c","i","[","b","o","t","]">>
s_CI == <<"C","I">>
s_selenium_ci == <<"s","e","l","e","n","i","u","m","-","c","i">>
s_mail == <<"a","l","@","x",".","i","o">>
s_Selenium_CI == <<"S","e","l","e","n","i","u","m","-","C","I">>

\* One element of the commits API's response, reduced to the fields the
\* aggregators read: author.login, author.type, commit.author.name,
\* commit.author.email, commit.author.date, commit.committer.date and the
\* number of parents.
Commit(login, type, name, email, adate, cdate, parents) ==
  [login |-> login, type |-> type, name |-> name, email |-> email,
   adate |-> adate, cdate |-> cdate, parents |-> parents]

\* An ordinary commit of a user account, authored and committed at d.
By(login, d) == Commit(login, "User", <<>>, <<>>, d, d, 1)

Jan25 == Date(2025, 0, 15, 0)
Feb25 == Date(2025, 1, 20, 3600)
Mar25 == Date(2025, 2, 1, 0)
EndOf24 == Date(2024, 11, 31, 86399)
AfterCutoff == Date(2025, 10, 1, 0)

cAl == Commit(s_al, "User", s_Al, s_mail, Jan25, Jan25, 1)
cBo == By(s_bo, Feb25)
cCy == By(s_cy, Mar25)
\* the account of cAl, committing under an automation name
cAlBot == Commit(s_al, "User", s_x_bot, <<>>, Jan25, Jan25, 1)
\* an app account: login with the platform suffix, and a display name
cCiBot == Commit(s_ci_bot, "Bot", s_CI, <<>>, Mar25, Mar25, 1)
\* a merge commit
cMerge == Commit(s_cy, "User", <<>>, <<>>, Mar25, Mar25, 2)
cAtCutoff == By(s_di, YTD_CUTOFF)
cAfterCutoff == By(s_ed, AfterCutoff)
cLastYear == By(s_al, EndOf24)
\* no author date: only the committer date is left
cNoAuthorDate == Commit(s_bo, "User", <<>>, <<>>, NoDate, Feb25, 1)
\* no login, name or email
cAnon == Commit(<<>>, "", <<>>, <<>>, Jan25, Jan25, 1)
\* on the deny-list of SeleniumHQ/selenium, matched by no pattern
cDenied == By(s_selenium_ci, Feb25)
\* the same login in another letter case
cDeniedCase == By(s_Selenium_CI, Mar25)

\* eight authors, one commit each
pageEight ==
  <<By(s_hal, Jan25), By(s_al, Feb25), By(s_gus, Mar25), By(s_bo, Jan25),
    By(s_fy, Feb25), By(s_cy, Mar25), By(s_ed, Jan25), By(s_di, YTD_CUTOFF)>>

\* two authors, an app account, a commit of the year before, a denied account
pageMixed == <<cAl, cBo, cCiBot, cLastYear, cAl, cDenied>>

\* no date at all
cNoDate == Commit(s_gus, "User", <<>>, <<>>, NoDate, NoDate, 1)

\* the last second of the window, a missing author date, no identity at all,
\* no date at all
pageEdges == <<cAtCutoff, cNoAuthorDate, cAnon, cAnon, cNoDate>>

\* the denied account and its look-alike
pageDeny == <<cDenied, cDeniedCase>>

\* no login but an email and a name; no login and no email but a name
cMailOnly == Commit(<<>>, "", s_Al, s_mail, Jan25, Jan25, 1)
cNameOnly == Commit(<<>>, "", s_Al, <<>>, Feb25, Feb25, 1)

\* every way of resolving a key, one account under two names, two anonymous
pageKeys == <<cMailOnly, cNameOnly, cAl, By(s_al, Feb25), cAnon, cAnon>>

\* The pages a server may answer with.
Pages ==
  { <<>>, <<cAl>>, <<cAlBot>>, <<cCiBot>>, <<cMerge>>, <<cAfterCutoff>>,
    pageMixed, pageEdges, pageEight }

\* The pages that tell the ways of naming an author apart.
IdentityPages == { <<cAl>>, pageMixed, pageDeny, pageKeys }

\* (year, monthsCount) as main passes them (2024 with MONTHS_A, 2025 with
\* MONTHS_B), and one more divisor.
Windows ==
  { [year |-> 2024, monthsCount |-> 12],
    [year |-> 2025, monthsCount |-> 10],
    [year |-> 2025, monthsCount |-> 8] }

\* The same, and MONTHS_B set to zero.
WindowsWithZero == Windows \cup { [year |-> 2025, monthsCount |-> 0] }

\* p.slug of the projects aggregated
Repos == {SELENIUM, JMETER}

\* Moments at which a process may start: UTC year and getUTCMonth of NOW.
Clocks == { [year |-> 2025, month |-> 10], [year |-> 2026, month |-> 0] }

Later(a, b) == a.year > b.year \/ (a.year = b.year /\ a.month > b.month)

(* ---------------------------- the run --------------------------------- *)

\* The three aggregators applied to the fetched commits with arguments a.
RunOf(a) ==
  [now |-> now,
   p0 |-> aggregate_p0(commits, a.monthsCount, a.year),
   insights |-> aggregateInsightsStyle(commits, a.repoFull, a.monthsCount, a.year),
   yearly |-> aggregateYear(commits, a.year)]

\* main is not running.
MainOff ==
  /\ gen = "none" /\ remote = <<>> /\ botsFile = <<>> /\ step = "off"
  /\ proj = 0 /\ url = 0 /\ out = <<>> /\ cA = <<>> /\ cB = <<>>
  /\ yA = <<>> /\ yB = <<>> /\ meta = <<>> /\ results = <<>> /\ verify = <<>>
  /\ docs = FALSE /\ files = <<>> /\ log = <<>> /\ error = <<>>

Init ==
  /\ MainOff
  /\ commits = <<>>
  /\ pages = 0
  /\ now \in Clocks
  /\ args = [year |-> 0, monthsCount |-> 0, repoFull |-> ""]
  /\ runs = <<>>
  /\ pc = "fetch"
  /\ REPO_DENY = REPO_DENY_literal

\* out.push(...await res.json()) / for await (const c of listCommits(...)) c2025.push(c)
FetchPage(page) ==
  /\ pc = "fetch"
  /\ pages < MaxPages
  /\ commits' = commits \o page
  /\ pages' = pages + 1
  /\ UNCHANGED <<now, args, runs, pc, REPO_DENY>>
  /\ UNCHANGED mainVars

\* const y2025 = aggregate(commits2025, MONTHS_B, 2025) and its two successors
Aggregate(w, repoFull) ==
  LET a == [year |-> w.year, monthsCount |-> w.monthsCount, repoFull |-> repoFull]
  IN /\ pc = "fetch"
     /\ args' = a
     /\ runs' = <<RunOf(a)>>
     /\ pc' = "done"
     /\ UNCHANGED <<commits, pages, now, REPO_DENY>>
     /\ UNCHANGED mainVars

\* The scheduled job starts again at a later moment: a new process, a new NOW.
Restart(clock) ==
  /\ pc = "done"
  /\ Later(clock, now)
  /\ now' = clock
  /\ pc' = "restarted"
  /\ UNCHANGED <<commits, pages, args, runs, REPO_DENY>>
  /\ UNCHANGED mainVars

\* The new process is handed the same commits and the same arguments.
Reaggregate ==
  /\ pc = "restarted"
  /\ runs' = Append(runs, RunOf(args))
  /\ pc' = "done"
  /\ UNCHANGED <<commits, pages, now, args, REPO_DENY>>
  /\ UNCHANGED mainVars

Next ==
  \/ \E page \in Pages : FetchPage(page)
  \/ \E w \in Windows, repoFull \in Repos : Aggregate(w, repoFull)
  \/ \E clock \in Clocks : Restart(clock)
  \/ Reaggregate

Spec == Init /\ [][Next]_vars

\* The arguments main aggregates with, for the comparison of reordered inputs.
ReorderArgs ==
  { [year |-> 2024, monthsCount |-> 12, repoFull |-> JMETER],
    [year |-> 2025, monthsCount |-> 10, repoFull |-> SELENIUM] }

\* One process: fetch, then aggregate.
NextOnce ==
  \/ \E page \in Pages : FetchPage(page)
  \/ \E a \in ReorderArgs : Aggregate(a, a.repoFull)

SpecOnce == Init /\ [][NextOnce]_vars

\* One process handed the pages of IdentityPages.
NextIdentity ==
  \/ \E page \in IdentityPages : FetchPage(page)
  \/ \E w \in WindowsWithZero, repoFull \in Repos : Aggregate(w, repoFull)

SpecIdentity == Init /\ [][NextIdentity]_vars

(* ===================== main: the whole program ======================== *)

PROJECTS ==
  << [label |-> <<"P","l","a","y","w","r","i","g","h","t">>, slug |-> PLAYWRIGHT],
     [label |-> <<"S","e","l","e","n","i","u","m">>, slug |-> SELENIUM],
     [label |-> <<"J","M","e","t","e","r">>, slug |-> JMETER],
     [label |-> <<"C","y","p","r","e","s","s">>, slug |-> CYPRESS] >>

YEAR_A == 2024
YEAR_B == 2025
MONTHS_A == 12
MONTHS_B == 10

(* ----------------------------- the server ----------------------------- *)

\* The commits API lists the commits of a repository dated from since to
\* until, both included, PerPage at a time, with a Link header naming the
\* next page as long as there is one.
RECURSIVE Listing(_, _, _)
Listing(history, since, until) ==
  IF Len(history) = 0 THEN <<>>
  ELSE LET c == Head(history)
           rest == Listing(Tail(history), since, until)
       IN IF c.cdate.has /\ NotAfter(since, c.cdate) /\ NotAfter(c.cdate, until)
          THEN <<c>> \o rest ELSE rest

PageOf(list, k) == SubSeq(list, (k - 1) * PerPage + 1, Min(k * PerPage, Len(list)))
HasNext(list, k) == k * PerPage < Len(list)

\* Status codes of the answers: success and two failures, and their bodies.
Statuses == {200, 403, 500}
BodyOf(status) == IF status = 403 THEN "rate limit exceeded" ELSE "server error"

histBusy == <<cLastYear, cAl, cBo, cCiBot, cAl, cDenied, cAtCutoff, cAfterCutoff>>
histSmall == <<cBo, cAl, By(s_bo, Mar25)>>

\* What the server may hold.
Remotes ==
  { (PLAYWRIGHT :> <<cMerge>>) @@ (SELENIUM :> histBusy)
      @@ (JMETER :> histSmall) @@ (CYPRESS :> <<>>),
    (PLAYWRIGHT :> histBusy) @@ (SELENIUM :> <<>>)
      @@ (JMETER :> histSmall) @@ (CYPRESS :> pageKeys) }

(* ------------------------ loadExternalDeny ---------------------------- *)

\* ./bots.json: whether it can be read, whether JSON.parse accepts it, and the
\* entries of the parsed object in order; the value of an entry is a list of
\* logins or something that cannot be spread (a number).
BotsFile(readable, parses, entries) ==
  [readable |-> readable, parses |-> parses, entries |-> entries]
DenyEntry(repo, isList, list) == [repo |-> repo, isList |-> isList, list |-> list]

NoBotsFile == BotsFile(FALSE, FALSE, <<>>)
BotsFiles ==
  { NoBotsFile,
    BotsFile(TRUE, FALSE, <<>>),
    BotsFile(TRUE, TRUE, <<DenyEntry(JMETER, TRUE, <<s_al>>)>>),
    BotsFile(TRUE, TRUE, <<DenyEntry(JMETER, TRUE, <<s_bo>>),
                           DenyEntry(SELENIUM, FALSE, <<>>)>>) }

\* The for loop of loadExternalDeny; the spread of a value that is not
\* iterable throws, and the catch ends the function with what was merged.
RECURSIVE mergeDeny(_, _)
mergeDeny(deny, entries) ==
  IF Len(entries) = 0 THEN deny
  ELSE LET e == Head(entries)
           old == IF e.repo \in DOMAIN deny THEN deny[e.repo] ELSE {}
       IN IF ~e.isList THEN deny
          ELSE mergeDeny(
                 [r \in DOMAIN deny \cup {e.repo} |->
                     IF r = e.repo THEN old \cup {e.list[i] : i \in 1..Len(e.list)}
                     ELSE deny[r]],
                 Tail(entries))

loadExternalDeny(deny, file) ==
  IF ~file.readable THEN deny
  ELSE IF ~file.parses THEN deny
  ELSE mergeDeny(deny, file.entries)

(* --------------------------- control flow ----------------------------- *)

Gens == {"part_000", "insights", "yearly"}

\* After with the files written at the end of every iteration
After_writeEarly(g, s, last) ==
  CASE s = "deny" -> "mkdir"
    [] s = "mkdir" -> IF g = "yearly" THEN "writeIndex" ELSE "meta"
    [] s = "meta" -> "fetchA"
    [] s = "fetchA" -> IF g = "insights" THEN "fetchB" ELSE "aggA"
    [] s = "fetchB" -> IF g = "insights" THEN "aggA" ELSE "aggB"
    [] s = "aggA" -> IF g = "part_000" THEN "fetchB" ELSE "aggB"
    [] s = "aggB" -> "push"
    [] s = "push" -> IF g = "yearly" THEN "mkdir" ELSE "writeIndex"
    [] s = "writeIndex" -> IF g = "yearly" THEN (IF last THEN "exit" ELSE "meta")
                           ELSE "writeVerify"
    [] s = "writeVerify" -> IF last THEN "exit" ELSE "meta"

\* After with the first aggregation started as soon as the metadata is there
After_aggregateFirst(g, s, last) ==
  CASE s = "deny" -> "mkdir"
    [] s = "mkdir" -> IF g = "yearly" THEN "writeIndex" ELSE "meta"
    [] s = "meta" -> "aggA"
    [] s = "aggA" -> "fetchA"
    [] s = "fetchA" -> "fetchB"
    [] s = "fetchB" -> "aggB"
    [] s = "aggB" -> "push"
    [] s = "push" -> IF ~last THEN "meta"
                     ELSE IF g = "yearly" THEN "mkdir" ELSE "writeIndex"
    [] s = "writeIndex" -> IF g = "yearly" THEN "exit" ELSE "writeVerify"
    [] s = "writeVerify" -> "exit"

\* The statement main reaches after the one at s; last: the for loop is in its
\* last iteration.
After(g, s, last) ==
  CASE s = "deny" -> "mkdir"
    [] s = "mkdir" -> IF g = "yearly" THEN "writeIndex" ELSE "meta"
    [] s = "meta" -> "fetchA"
    [] s = "fetchA" -> IF g = "insights" THEN "fetchB" ELSE "aggA"
    [] s = "fetchB" -> IF g = "insights" THEN "aggA" ELSE "aggB"
    [] s = "aggA" -> IF g = "part_000" THEN "fetchB" ELSE "aggB"
    [] s = "aggB" -> "push"
    [] s = "push" -> IF ~last THEN "meta"
                     ELSE IF g = "yearly" THEN "mkdir" ELSE "writeIndex"
    [] s = "writeIndex" -> IF g = "yearly" THEN "exit" ELSE "writeVerify"
    [] s = "writeVerify" -> "exit"

Last_project == proj = Len(PROJECTS)

\* since and until of the fetch at step s
WindowOf(g, s) ==
  IF g = "yearly" THEN [since |-> Date(2024, 0, 1, 0), until |-> Date(2025, 11, 31, 86399)]
  ELSE IF s = "fetchA" THEN [since |-> Date(2024, 0, 1, 0), until |-> Date(2024, 11, 31, 86399)]
  ELSE [since |-> Date(2025, 0, 1, 0), until |-> YTD_CUTOFF]

Event(ev, what, page) == [ev |-> ev, proj |-> proj, what |-> what, page |-> page]

\* new Error(`Repo meta ${status} ${owner}/${repo}`) in part_000 and the first
\* update.js; gh() of the second one puts the body into the message as well.
MetaError(g, status) ==
  [status |-> status, body |-> IF g = "yearly" THEN BodyOf(status) ELSE ""]

\* new Error(`GitHub ${r.status}: ${body}`)
PageError(g, status) == [status |-> status, body |-> BodyOf(status)]

\* pushAll that puts the page in front of what was collected
pushAll_front(array, page) == page \o array

\* out.push(...page)
pushAll(array, page) == array \o page

\* Throw caught inside the loop: a record of zeros stands in for the project
\* and main goes on with the next one
Throw_zeros(err, ev) ==
  /\ error' = <<err>>
  /\ log' = Append(log, ev)
  /\ results' = Append(results,
       [id |-> toLowerCase(PROJECTS[proj].label), label |-> PROJECTS[proj].label,
        meta |-> [default_branch |-> "main"],
        y2024 |-> aggregate_p0(<<>>, MONTHS_A, YEAR_A),
        y2025 |-> aggregate_p0(<<>>, MONTHS_B, YEAR_B)])
  /\ proj' = IF proj = Len(PROJECTS) THEN proj ELSE proj + 1
  /\ url' = 1 /\ out' = <<>> /\ cA' = <<>> /\ cB' = <<>>
  /\ yA' = <<>> /\ yB' = <<>> /\ meta' = <<>>
  /\ step' = IF proj < Len(PROJECTS) THEN "meta"
             ELSE IF gen = "yearly" THEN "mkdir" ELSE "writeIndex"
  /\ UNCHANGED <<gen, remote, botsFile, verify, docs, files, now, REPO_DENY>>
  /\ UNCHANGED aggVars

\* Throw that hands main the pages collected before the failing one
Throw_partial(err, ev) ==
  /\ error' = <<err>>
  /\ step' = "crashed"
  /\ log' = Append(log, ev)
  /\ cA' = IF step = "fetchA" THEN out ELSE cA
  /\ cB' = IF step = "fetchB" THEN out ELSE cB
  /\ UNCHANGED <<gen, remote, botsFile, proj, url, out, yA, yB, meta,
                 results, verify, docs, files, now, REPO_DENY>>
  /\ UNCHANGED aggVars

\* A throw inside main: the async function is rejected, nothing catches it and
\* the process ends.  What had been put into the arrays stays as it was.
Throw(err, ev) ==
  /\ error' = <<err>>
  /\ step' = "crashed"
  /\ log' = Append(log, ev)
  /\ UNCHANGED <<gen, remote, botsFile, proj, url, out, cA, cB, yA, yB, meta,
                 results, verify, docs, files, now, REPO_DENY>>
  /\ UNCHANGED aggVars

(* ------------------------------ actions ------------------------------- *)

InitMain ==
  /\ commits = <<>> /\ pages = 0 /\ runs = <<>> /\ pc = "off"
  /\ args = [year |-> 0, monthsCount |-> 0, repoFull |-> ""]
  /\ now \in Clocks
  /\ REPO_DENY = REPO_DENY_literal
  /\ gen \in Gens
  /\ remote \in Remotes
  /\ botsFile \in (IF gen = "insights" THEN BotsFiles ELSE {NoBotsFile})
  /\ step = (IF gen = "insights" THEN "deny" ELSE IF gen = "yearly" THEN "meta" ELSE "mkdir")
  /\ proj = 1 /\ url = 1 /\ out = <<>> /\ cA = <<>> /\ cB = <<>>
  /\ yA = <<>> /\ yB = <<>> /\ meta = <<>> /\ results = <<>> /\ verify = <<>>
  /\ docs = FALSE /\ files = <<>> /\ log = <<>> /\ error = <<>>

\* await loadExternalDeny()
LoadExternalDeny ==
  /\ step = "deny"
  /\ REPO_DENY' = loadExternalDeny(REPO_DENY, botsFile)
  /\ step' = After(gen, step, Last_project)
  /\ UNCHANGED <<gen, remote, botsFile, proj, url, out, cA, cB, yA, yB, meta,
                 results, verify, docs, files, log, error, now>>
  /\ UNCHANGED aggVars

\* await fs.mkdir(outDir, { recursive: true })
Mkdir ==
  /\ step = "mkdir"
  /\ docs' = TRUE
  /\ step' = After(gen, step, Last_project)
  /\ UNCHANGED <<gen, remote, botsFile, proj, url, out, cA, cB, yA, yB, meta,
                 results, verify, files, log, error, now, REPO_DENY>>
  /\ UNCHANGED aggVars

\* const meta = await fetchRepoMeta(owner, repo)
RepoMeta(status) ==
  /\ step = "meta"
  /\ LET ev == Event("request", "meta", 1) IN
     IF status # 200 THEN Throw(MetaError(gen, status), ev)
     ELSE /\ meta' = <<[default_branch |-> "main"]>>
          /\ log' = Append(log, ev)
          /\ step' = After(gen, step, Last_project)
          /\ UNCHANGED <<gen, remote, botsFile, proj, url, out, cA, cB, yA, yB,
                         results, verify, docs, files, error, now, REPO_DENY>>
          /\ UNCHANGED aggVars

\* loopAgain with a cap of two pages
loopAgain_capped(more, k) == more /\ k < 2

\* url = links.next || null; while (url): the loop goes on exactly when the
\* answer to the request for page k named a next page.
loopAgain(more, k) == more

\* One turn of the while loop of ghPaginated or listCommits: the request for
\* page url and what is done with the answer.  ghPaginated collects in out and
\* returns it after the last page; listCommits yields each commit to main,
\* which pushes it into c2024 or c2025 at once.
CommitsPage(status) ==
  /\ step \in {"fetchA", "fetchB"}
  /\ LET what == IF step = "fetchA" THEN "A" ELSE "B"
         w == WindowOf(gen, step)
         list == Listing(remote[PROJECTS[proj].slug], w.since, w.until)
         page == PageOf(list, url)
         more == loopAgain(HasNext(list, url), url)
         ev == Event("request", what, url)
         streamed == gen = "insights"
         got == pushAll(IF streamed THEN (IF what = "A" THEN cA ELSE cB) ELSE out, page)
         delivered == streamed \/ ~more
     IN
     IF status # 200 THEN Throw(PageError(gen, status), ev)
     ELSE /\ out' = IF streamed \/ ~more THEN <<>> ELSE got
          /\ cA' = IF what = "A" /\ delivered THEN got ELSE cA
          /\ cB' = IF what = "B" /\ delivered THEN got ELSE cB
          /\ url' = IF more THEN url + 1 ELSE 1
          /\ step' = IF more THEN step ELSE After(gen, step, Last_project)
          /\ log' = IF more THEN Append(log, ev)
                    ELSE log \o <<ev, Event("fetched", what, url)>>
          /\ UNCHANGED <<gen, remote, botsFile, proj, yA, yB, meta,
                         results, verify, docs, files, error, now, REPO_DENY>>
          /\ UNCHANGED aggVars

\* The aggregation of one year: aggregate, aggregateInsightsStyle or
\* aggregateYear, with the arguments main passes.
AggregateOf(g, what) ==
  LET year == IF what = "A" THEN 2024 ELSE 2025
      months == IF what = "A" THEN MONTHS_A ELSE MONTHS_B
      cs == IF what = "A" \/ g = "yearly" THEN cA ELSE cB
  IN CASE g = "part_000" -> aggregate_p0(cs, months, year)
       [] g = "insights" -> aggregateInsightsStyle(cs, PROJECTS[proj].slug, months, year)
       [] g = "yearly" -> aggregateYear(cs, year)

AggregateYearWindow ==
  /\ step \in {"aggA", "aggB"}
  /\ LET what == IF step = "aggA" THEN "A" ELSE "B" IN
     /\ yA' = IF what = "A" THEN <<AggregateOf(gen, "A")>> ELSE yA
     /\ yB' = IF what = "B" THEN <<AggregateOf(gen, "B")>> ELSE yB
     /\ log' = Append(log, Event("aggregate", what, 0))
  /\ step' = After(gen, step, Last_project)
  /\ UNCHANGED <<gen, remote, botsFile, proj, url, out, cA, cB, meta,
                 results, verify, docs, files, error, now, REPO_DENY>>
  /\ UNCHANGED aggVars

\* What verify.push(...) records of the two aggregates.
VerifyRecord(g, slug, branch, a, b) ==
  IF g = "part_000"
  THEN [repo |-> slug,
        totals |-> <<a.total, b.total>>,
        unique_contributors |-> <<a.unique, b.unique>>,
        averages |-> <<a.avg, b.avg>>,
        top5_2025_YTD |-> b.top]
  ELSE [repo |-> slug,
        branch |-> branch,
        human_totals |-> <<a.human.total, b.human.total>>,
        human_unique |-> <<a.human.unique, b.human.unique>>,
        all_totals |-> <<a.all.total, b.all.total>>,
        deny_applied |-> IF slug \in DOMAIN REPO_DENY THEN REPO_DENY[slug] ELSE {}]

\* results.push({...}); verify.push({...}); and the end of the iteration, with
\* which its constants go out of scope.
Push ==
  /\ step = "push"
  /\ results' = Append(results,
       [id |-> toLowerCase(PROJECTS[proj].label), label |-> PROJECTS[proj].label,
        meta |-> meta[1], y2024 |-> yA[1], y2025 |-> yB[1]])
  /\ verify' = IF gen = "yearly" THEN verify
               ELSE Append(verify, VerifyRecord(gen, PROJECTS[proj].slug,
                                               meta[1].default_branch, yA[1], yB[1]))
  /\ log' = Append(log, Event("push", "", 0))
  /\ proj' = IF Last_project THEN proj ELSE proj + 1
  /\ cA' = <<>> /\ cB' = <<>> /\ yA' = <<>> /\ yB' = <<>> /\ meta' = <<>>
  /\ step' = After(gen, step, Last_project)
  /\ UNCHANGED <<gen, remote, botsFile, url, out, docs, files, error, now, REPO_DENY>>
  /\ UNCHANGED aggVars

\* await fs.writeFile(path.join(outDir, "index.html"), renderHTML(results), "utf8")
WriteIndex ==
  /\ step = "writeIndex"
  /\ files' = Append(files, [name |-> "docs/index.html", records |-> results])
  /\ step' = After(gen, step, Last_project)
  /\ UNCHANGED <<gen, remote, botsFile, proj, url, out, cA, cB, yA, yB, meta,
                 results, verify, docs, log, error, now, REPO_DENY>>
  /\ UNCHANGED aggVars

\* await fs.writeFile(path.join(outDir, "verification.json"), JSON.stringify({..., results: verify}))
WriteVerification ==
  /\ step = "writeVerify"
  /\ files' = Append(files, [name |-> "docs/verification.json", records |-> verify])
  /\ step' = After(gen, step, Last_project)
  /\ UNCHANGED <<gen, remote, botsFile, proj, url, out, cA, cB, yA, yB, meta,
                 results, verify, docs, log, error, now, REPO_DENY>>
  /\ UNCHANGED aggVars

NextMain ==
  \/ LoadExternalDeny
  \/ Mkdir
  \/ \E status \in Statuses : RepoMeta(status)
  \/ \E status \in Statuses : CommitsPage(status)
  \/ AggregateYearWindow
  \/ Push
  \/ WriteIndex
  \/ WriteVerification

SpecMain == InitMain /\ [][NextMain]_vars

\* The server answers every request for a page, and the loop of the fetch,
\* the only thing main awaits, then runs its next turn.
SpecMainFair ==
  InitMain /\ [][NextMain]_vars /\ WF_vars(\E status \in Statuses : CommitsPage(status))

(* ===================== what the claims speak about ==================== *)

\* The result of the latest run; meaningful once pc = "done".
Last == runs[Len(runs)]
Aggregated == pc = "done"

\* Commit c is dated in year y, by the date each aggregator reads.
InYearByEither(c, y) == whenOf(c).has /\ whenOf(c).year = y
InYearByAuthorDate(c, y) == c.adate.has /\ c.adate.year = y

\* Commit c is marked automated, by the classifier each aggregator uses.
Bot_p0(c) == looksLikeBot_p0(c.login) \/ looksLikeBot_p0(c.name) \/ looksLikeBot_p0(c.email)
Bot_insights(c) == looksLikeBot(args.repoFull, c.login, c.name, c.email)
Bot_yearly(c) == isBotCommit(c)

\* Positions of cs dated in the year aggregated, and those of them that are human.
InYear_p0(cs) == {i \in 1..Len(cs) : InYearByEither(cs[i], args.year)}
InYear_yearly(cs) == {i \in 1..Len(cs) : InYearByAuthorDate(cs[i], args.year)}
Human_p0(cs) == {i \in InYear_p0(cs) : ~Bot_p0(cs[i])}
Human_insights(cs) == {i \in InYear_p0(cs) : ~Bot_insights(cs[i])}
Human_yearly(cs) == {i \in InYear_yearly(cs) : ~Bot_yearly(cs[i])}

KeysAt(cs, idx) == {authorId(cs[i]) : i \in idx}
CountOf(cs, idx, k) == Cardinality({i \in idx : authorId(cs[i]) = k})
FirstOf(cs, idx, k) ==
  CHOOSE i \in idx : authorId(cs[i]) = k /\ \A j \in idx : authorId(cs[j]) = k => i <= j

RECURSIVE SumMonths(_, _)
SumMonths(monthly, m) ==
  IF m < 0 THEN 0 ELSE monthly[m] + SumMonths(monthly, m - 1)

Authors(top) == {top[i].author : i \in 1..Len(top)}

(* ------------------------------- C1 ----------------------------------- *)

\* C1: in every result of every aggregator (aggregate, the human and the all
\* view of aggregateInsightsStyle, aggregateYear) the total equals the sum of
\* the twelve monthly buckets.
C1_TotalIsSumOfMonths ==
  \A r \in 1..Len(runs) :
    /\ runs[r].p0.total = SumMonths(runs[r].p0.monthly, 11)
    /\ runs[r].insights.human.total = SumMonths(runs[r].insights.human.monthly, 11)
    /\ runs[r].insights.all.total = SumMonths(runs[r].insights.all.monthly, 11)
    /\ runs[r].yearly.totalCommits = SumMonths(runs[r].yearly.monthly, 11)

\* Commits of two months were counted, one commit was left out, and the human
\* view counted fewer than the all view.
C1_Witness ==
  /\ Aggregated
  /\ Last.p0.total >= 2
  /\ Last.p0.total < Len(commits)
  /\ Cardinality({m \in 0..11 : Last.p0.monthly[m] > 0}) >= 2
  /\ Last.insights.human.total < Last.insights.all.total
  /\ Last.yearly.totalCommits >= 2

(* ------------------------------- C2 ----------------------------------- *)

\* C2: the unique-human-contributor count equals the number of distinct
\* resolved author keys among the commits dated in the target year that the
\* bot classifier does not mark as automated.
C2_UniqueIsDistinctHumanKeys ==
  Aggregated =>
    /\ Last.p0.unique = Cardinality(KeysAt(commits, Human_p0(commits)))
    /\ Last.insights.human.unique = Cardinality(KeysAt(commits, Human_insights(commits)))
    /\ Last.yearly.uniqueDevs = Cardinality(KeysAt(commits, Human_yearly(commits)))

\* Two human commits share a key, another key is human too, and a bot commit
\* of the year is present.
C2_Witness ==
  /\ Aggregated
  /\ Last.p0.unique >= 2
  /\ Cardinality(Human_p0(commits)) > Last.p0.unique
  /\ Cardinality(InYear_p0(commits)) > Cardinality(Human_p0(commits))

(* ------------------------------- C3 ----------------------------------- *)

NoBotCommitUnder(top, cs, inYear, IsBot(_)) ==
  \A e \in 1..Len(top) :
    \A i \in inYear : authorId(cs[i]) = top[e].author => ~IsBot(cs[i])

\* C3: for every entry of the returned top list, no commit of the year that
\* resolves to the entry's author key is marked automated by the classifier.
C3_TopHasNoBotIdentity ==
  Aggregated =>
    /\ NoBotCommitUnder(Last.p0.top, commits, InYear_p0(commits), Bot_p0)
    /\ NoBotCommitUnder(Last.insights.human.top, commits, InYear_p0(commits), Bot_insights)
    /\ NoBotCommitUnder(Last.yearly.top, commits, InYear_yearly(commits), Bot_yearly)

(* ------------------------------- C4 ----------------------------------- *)

\* Key a ranks ahead of key b: more counted commits, or as many and seen first.
Ahead(cs, idx, a, b) ==
  \/ CountOf(cs, idx, a) > CountOf(cs, idx, b)
  \/ /\ CountOf(cs, idx, a) = CountOf(cs, idx, b)
     /\ FirstOf(cs, idx, a) < FirstOf(cs, idx, b)

\* top is the ranking of the keys tallied at positions idx, cut at five.
IsTopFive(top, cs, idx) ==
  /\ Len(top) = Min(5, Cardinality(KeysAt(cs, idx)))
  /\ (Cardinality(KeysAt(cs, idx)) = 8 => Len(top) = 5)
  /\ \A i \in 1..Len(top) :
       /\ top[i].author \in KeysAt(cs, idx)
       /\ top[i].commits = CountOf(cs, idx, top[i].author)
  /\ \A i, j \in 1..Len(top) :
       i < j => /\ top[i].commits >= top[j].commits
                /\ Ahead(cs, idx, top[i].author, top[j].author)
  /\ \A k \in KeysAt(cs, idx) \ Authors(top) :
       \A i \in 1..Len(top) : Ahead(cs, idx, top[i].author, k)

\* C4: the top list has min(5, tallied authors) entries, the authors with the
\* highest counts in non-increasing order, equal counts in the order of their
\* first counted commit, also across the cut; eight authors give five entries.
C4_TopFiveRanking ==
  Aggregated =>
    /\ IsTopFive(Last.p0.top, commits, Human_p0(commits))
    /\ IsTopFive(Last.insights.human.top, commits, Human_insights(commits))
    /\ IsTopFive(Last.yearly.top, commits, Human_yearly(commits))

\* Eight authors are tallied, the list is cut to five, the first entry has
\* more commits than the last, and an author left out has as many as the last.
C4_Witness ==
  /\ Aggregated
  /\ Cardinality(KeysAt(commits, Human_p0(commits))) = 8
  /\ Len(Last.p0.top) = 5
  /\ Last.p0.top[1].commits > Last.p0.top[5].commits
  /\ \E k \in KeysAt(commits, Human_p0(commits)) \ Authors(Last.p0.top) :
       CountOf(commits, Human_p0(commits), k) = Last.p0.top[5].commits

(* ------------------- aggregating another input ------------------------ *)

\* What the aggregators return for cs, with the arguments and the clock of
\* the latest run.
Agg_p0(cs) == aggregate_p0(cs, args.monthsCount, args.year)
Agg_insights(cs) == aggregateInsightsStyle(cs, args.repoFull, args.monthsCount, args.year)
Agg_yearly(cs) == aggregateYear(cs, args.year)

Remove(cs, i) == SubSeq(cs, 1, i - 1) \o SubSeq(cs, i + 1, Len(cs))

\* total and monthly are those of (total0, monthly0) with one more commit in month m
OneMore(total, monthly, total0, monthly0, m) ==
  /\ total = total0 + 1
  /\ monthly = [monthly0 EXCEPT ![m] = @ + 1]

(* ------------------------------- C5 ----------------------------------- *)

\* C5: a commit of the target year marked automated adds one to the total and
\* to its month bucket and leaves unique count and top list as they are, in
\* the figures each program renders (aggregate, the human view of
\* aggregateInsightsStyle, aggregateYear).
C5_BotCountsInTotal ==
  Aggregated =>
    /\ \A i \in InYear_p0(commits) \ Human_p0(commits) :
         LET w == Agg_p0(Remove(commits, i)) IN
         /\ OneMore(Last.p0.total, Last.p0.monthly, w.total, w.monthly,
                    whenOf(commits[i]).month)
         /\ Last.p0.unique = w.unique /\ Last.p0.top = w.top
    /\ \A i \in InYear_p0(commits) \ Human_insights(commits) :
         LET w == Agg_insights(Remove(commits, i)).human IN
         /\ OneMore(Last.insights.human.total, Last.insights.human.monthly,
                    w.total, w.monthly, whenOf(commits[i]).month)
         /\ Last.insights.human.unique = w.unique /\ Last.insights.human.top = w.top
    /\ \A i \in InYear_yearly(commits) \ Human_yearly(commits) :
         LET w == Agg_yearly(Remove(commits, i)) IN
         /\ OneMore(Last.yearly.totalCommits, Last.yearly.monthly,
                    w.totalCommits, w.monthly, commits[i].adate.month)
         /\ Last.yearly.uniqueDevs = w.uniqueDevs /\ Last.yearly.top = w.top

\* C5 as amended: so it is in aggregate, in aggregateYear and in the all view
\* of aggregateInsightsStyle; the human view of aggregateInsightsStyle, the
\* one update.js renders, does not count the commit at all.
C5_BotCountsInTotalExceptHumanView ==
  Aggregated =>
    /\ \A i \in InYear_p0(commits) \ Human_p0(commits) :
         LET w == Agg_p0(Remove(commits, i)) IN
         /\ OneMore(Last.p0.total, Last.p0.monthly, w.total, w.monthly,
                    whenOf(commits[i]).month)
         /\ Last.p0.unique = w.unique /\ Last.p0.top = w.top
    /\ \A i \in InYear_p0(commits) \ Human_insights(commits) :
         LET w == Agg_insights(Remove(commits, i)) IN
         /\ OneMore(Last.insights.all.total, Last.insights.all.monthly,
                    w.all.total, w.all.monthly, whenOf(commits[i]).month)
         /\ Last.insights.human = w.human
    /\ \A i \in InYear_yearly(commits) \ Human_yearly(commits) :
         LET w == Agg_yearly(Remove(commits, i)) IN
         /\ OneMore(Last.yearly.totalCommits, Last.yearly.monthly,
                    w.totalCommits, w.monthly, commits[i].adate.month)
         /\ Last.yearly.uniqueDevs = w.uniqueDevs /\ Last.yearly.top = w.top

\* Each aggregator was handed a bot commit of the year next to human ones.
C5_Witness ==
  /\ Aggregated
  /\ InYear_p0(commits) \ Human_p0(commits) # {}
  /\ InYear_p0(commits) \ Human_insights(commits) # {}
  /\ InYear_yearly(commits) \ Human_yearly(commits) # {}
  /\ Last.p0.unique >= 1
  /\ Last.insights.human.total >= 1
  /\ Last.insights.all.total > Last.insights.human.total

(* ------------------------------- C6 ----------------------------------- *)

RECURSIVE NonMerges(_)
NonMerges(cs) ==
  IF Len(cs) = 0 THEN <<>>
  ELSE IF Head(cs).parents > 1 THEN NonMerges(Tail(cs))
  ELSE <<Head(cs)>> \o NonMerges(Tail(cs))

\* C6: with countMerges false the result is that of the input without its
\* commits of more than one parent; with countMerges true it is that of the
\* whole input.
C6_MergesFollowCountMerges ==
  Aggregated =>
    \A countMerges \in BOOLEAN :
      LET cs == IF countMerges THEN commits ELSE NonMerges(commits) IN
      /\ Last.p0 = Agg_p0(cs)
      /\ Last.insights = Agg_insights(cs)
      /\ Last.yearly = Agg_yearly(cs)

\* C6 as amended: there is no countMerges; a commit with more than one parent
\* is counted exactly as the same commit with one parent, and adds one to the
\* total when it is dated in the year.
C6_MergesAlwaysCounted ==
  Aggregated =>
    \A i \in 1..Len(commits) :
      commits[i].parents > 1 =>
        LET single == [commits EXCEPT ![i].parents = 1]
            without == Remove(commits, i)
        IN /\ Last.p0 = Agg_p0(single)
           /\ Last.insights = Agg_insights(single)
           /\ Last.yearly = Agg_yearly(single)
           /\ i \in InYear_p0(commits) =>
                /\ Last.p0.total = Agg_p0(without).total + 1
                /\ Last.insights.all.total = Agg_insights(without).all.total + 1
           /\ i \in InYear_yearly(commits) =>
                Last.yearly.totalCommits = Agg_yearly(without).totalCommits + 1

\* A merge commit of the year was aggregated together with other commits.
C6_Witness ==
  /\ Aggregated
  /\ \E i \in InYear_p0(commits) \cap InYear_yearly(commits) : commits[i].parents > 1
  /\ Last.p0.total >= 2

(* ------------------------------- C7 ----------------------------------- *)

Swap(cs, i, j) == [cs EXCEPT ![i] = cs[j], ![j] = cs[i]]
Reverse(cs) == [k \in 1..Len(cs) |-> cs[Len(cs) + 1 - k]]

\* The reorderings of cs that are compared: every permutation of a short
\* sequence; of a longer one every exchange of two neighbours (which generate
\* the permutations), and the reversal.
Reorderings(cs) ==
  IF Len(cs) <= MaxPermuted
  THEN {[k \in 1..Len(cs) |-> cs[p[k]]] : p \in Permutations(1..Len(cs))}
  ELSE {Swap(cs, i, i + 1) : i \in 1..(Len(cs) - 1)} \cup {Reverse(cs)}

TopCounts(top) == [i \in 1..Len(top) |-> top[i].commits]

\* C7: every reordering of the input gives the same result in every field,
\* the top list with its order and entries included.
C7_OrderIndependent ==
  Aggregated =>
    \A cs \in Reorderings(commits) :
      /\ Agg_p0(cs) = Last.p0
      /\ Agg_insights(cs) = Last.insights
      /\ Agg_yearly(cs) = Last.yearly

\* top and top0 differ at most in which of the authors with equal counts
\* they list, and in what order.
SameUpToTies(top, top0, idx) ==
  /\ TopCounts(top) = TopCounts(top0)
  /\ \A i \in 1..Len(top) :
       /\ top[i].author \in KeysAt(commits, idx)
       /\ CountOf(commits, idx, top[i].author) = top0[i].commits

\* C7 as amended: every reordering gives the same total, monthly buckets,
\* average and unique count, and a top list with the same counts position by
\* position; its entries may differ only among authors with equal counts.
C7_OrderIndependentUpToTies ==
  Aggregated =>
    \A cs \in Reorderings(commits) :
      LET a == Agg_p0(cs)
          b == Agg_insights(cs)
          c == Agg_yearly(cs)
      IN /\ [a EXCEPT !.top = <<>>] = [Last.p0 EXCEPT !.top = <<>>]
         /\ SameUpToTies(a.top, Last.p0.top, Human_p0(commits))
         /\ b.all = Last.insights.all
         /\ [b.human EXCEPT !.top = <<>>] = [Last.insights.human EXCEPT !.top = <<>>]
         /\ SameUpToTies(b.human.top, Last.insights.human.top, Human_insights(commits))
         /\ [c EXCEPT !.top = <<>>] = [Last.yearly EXCEPT !.top = <<>>]
         /\ SameUpToTies(c.top, Last.yearly.top, Human_yearly(commits))

\* Some reordering of the aggregated commits changes the top list, and the
\* list is not all ties.
C7_Witness ==
  /\ Aggregated
  /\ Len(Last.p0.top) >= 3
  /\ Last.p0.top[1].commits > Last.p0.top[Len(Last.p0.top)].commits
  /\ \E cs \in Reorderings(commits) : Agg_p0(cs).top # Last.p0.top

(* ------------------------------- C8 ----------------------------------- *)

\* C8: two runs on the same commits, year window and bot rules return the
\* same result in every field, whenever they happen.
C8_SameInputsSameResult ==
  \A i, j \in 1..Len(runs) :
    /\ runs[i].p0 = runs[j].p0
    /\ runs[i].insights = runs[j].insights
    /\ runs[i].yearly = runs[j].yearly

\* monthsElapsedInYear(year, NOW) || 12 for a process started at clock
ElapsedAt(y, clock) ==
  IF monthsElapsedInYear(y, clock) = 0 THEN 12 ELSE monthsElapsedInYear(y, clock)

\* C8 as amended: so it is for aggregate and aggregateInsightsStyle, and for
\* every field of aggregateYear but the average, which is the total divided
\* by the months of the year elapsed when the process started.
C8_SameResultButClockedAverage ==
  \A i, j \in 1..Len(runs) :
    /\ runs[i].p0 = runs[j].p0
    /\ runs[i].insights = runs[j].insights
    /\ [runs[i].yearly EXCEPT !.avgPerMonth = 0] = [runs[j].yearly EXCEPT !.avgPerMonth = 0]
    /\ runs[i].yearly.avgPerMonth =
         roundedAverage(runs[i].yearly.totalCommits, ElapsedAt(args.year, runs[i].now))
    /\ ElapsedAt(args.year, runs[i].now) = ElapsedAt(args.year, runs[j].now)
         => runs[i].yearly.avgPerMonth = runs[j].yearly.avgPerMonth

\* The same commits were aggregated by two processes started at different
\* moments, and something was counted.
C8_Witness ==
  /\ Len(runs) = 2
  /\ runs[1].now # runs[2].now
  /\ runs[1].p0.total >= 2
  /\ runs[1].yearly.totalCommits >= 2

(* ------------------------------- C9 ----------------------------------- *)

\* Positions of cs dated (by d) in 2025 and not after the year-to-date cutoff.
InWindow2025(cs, d(_)) ==
  {i \in 1..Len(cs) : d(cs[i]).has /\ d(cs[i]).year = 2025 /\ NotAfter(d(cs[i]), YTD_CUTOFF)}

AuthorDate(c) == c.adate

\* C9: for the 2025 window ending at YTD_CUTOFF the aggregate counts the
\* commits dated up to and at the cutoff, and none dated after it.
C9_NothingAfterWindowEnd ==
  (Aggregated /\ args.year = 2025) =>
    /\ Last.p0.total = Cardinality(InWindow2025(commits, whenOf))
    /\ Last.insights.all.total = Cardinality(InWindow2025(commits, whenOf))
    /\ Last.yearly.totalCommits = Cardinality(InWindow2025(commits, AuthorDate))

(* ------------------------------- C10 ---------------------------------- *)

\* x on its own matches one of the generic patterns.
MatchesAlone(patterns, x) == Len(x) > 0 /\ \E rx \in patterns : RxTest(rx, x)

\* C10: a commit whose login, name or email on its own matches a generic
\* pattern is classified as a bot, whatever the other two fields are.
C10_AnyFieldAloneSuffices ==
  \A i \in 1..Len(commits) :
    LET c == commits[i] IN
    /\ (MatchesAlone(BOT_PATTERNS_p0, c.login) \/ MatchesAlone(BOT_PATTERNS_p0, c.name)
          \/ MatchesAlone(BOT_PATTERNS_p0, c.email))
         => Bot_p0(c)
    /\ (MatchesAlone(BOT_PATTERNS, c.login) \/ MatchesAlone(BOT_PATTERNS, c.name)
          \/ MatchesAlone(BOT_PATTERNS, c.email))
         => \A repoFull \in Repos : looksLikeBot(repoFull, c.login, c.name, c.email)

(* ------------------------------- C11 ---------------------------------- *)

\* login is, letter for letter, an entry of the deny-list of repoFull.
DeniedBy(repoFull, login) ==
  /\ Len(login) > 0
  /\ repoFull \in DOMAIN REPO_DENY
  /\ \E e \in REPO_DENY[repoFull] : e = login

\* One of the generic patterns matches the joined login, name and email of c.
GenericMatch(c) ==
  \E rx \in BOT_PATTERNS : RxTest(rx, JoinSpace(<<c.login, c.name, c.email>>))

\* In-year positions whose commit is neither denied for repoFull nor matched.
Undenied(cs, repoFull) ==
  {i \in InYear_p0(cs) : ~DeniedBy(repoFull, cs[i].login) /\ ~GenericMatch(cs[i])}

\* C11: a commit whose login is on the deny-list of the repository aggregated
\* is classified automated and adds nothing to the human total, unique count
\* or top list; a login denied for another repository only, or differing in
\* letter case, is counted unless a generic pattern matches.
C11_DenyListIsExactAndPerRepository ==
  Aggregated =>
    LET h == Last.insights.human
        idx == Undenied(commits, args.repoFull)
    IN /\ \A i \in 1..Len(commits) :
            DeniedBy(args.repoFull, commits[i].login)
              => looksLikeBot(args.repoFull, commits[i].login, commits[i].name, commits[i].email)
       /\ h.total = Cardinality(idx)
       /\ h.unique = Cardinality(KeysAt(commits, idx))
       /\ \A e \in 1..Len(h.top) : h.top[e].commits = CountOf(commits, idx, h.top[e].author)

\* Aggregated for SeleniumHQ/selenium with its denied account and the same
\* login in another case in the year: only the second is counted.
C11_Witness ==
  /\ Aggregated
  /\ args.repoFull = SELENIUM
  /\ \E i \in InYear_p0(commits) : commits[i] = cDenied
  /\ \E i \in InYear_p0(commits) : commits[i] = cDeniedCase
  /\ s_Selenium_CI \in Authors(Last.insights.human.top)
  /\ s_selenium_ci \notin Authors(Last.insights.human.top)

(* ------------------------------- C12 ---------------------------------- *)

\* The key the priority login, email, display name, "unknown" gives commit c.
ResolvedKey(c) ==
  CASE Len(c.login) > 0 -> c.login
    [] Len(c.login) = 0 /\ Len(c.email) > 0 -> c.email
    [] Len(c.login) = 0 /\ Len(c.email) = 0 /\ Len(c.name) > 0 -> c.name
    [] OTHER -> <<"u","n","k","n","o","w","n">>

\* The tally (unique count and top list) is the tally of the commits at idx
\* grouped by their resolved key.
TalliedByResolvedKey(unique, top, cs, idx) ==
  /\ unique = Cardinality({ResolvedKey(cs[i]) : i \in idx})
  /\ \A e \in 1..Len(top) :
       top[e].commits = Cardinality({i \in idx : ResolvedKey(cs[i]) = top[e].author})
  /\ \A e \in 1..Len(top) : top[e].commits > 0

\* C12: every counted commit is tallied under login, else email, else display
\* name, else "unknown": commits with the same resolved key share one entry
\* and count as one contributor, whatever their raw names and emails.
C12_TalliedUnderResolvedKey ==
  Aggregated =>
    /\ TalliedByResolvedKey(Last.p0.unique, Last.p0.top, commits, Human_p0(commits))
    /\ TalliedByResolvedKey(Last.insights.human.unique, Last.insights.human.top,
                            commits, Human_insights(commits))
    /\ TalliedByResolvedKey(Last.yearly.uniqueDevs, Last.yearly.top,
                            commits, Human_yearly(commits))

\* One account under two names, a key from the email, a key from the name and
\* two commits without any identity have been tallied: four contributors.
C12_Witness ==
  /\ Aggregated
  /\ \E i, j \in Human_p0(commits) :
       /\ commits[i].login = commits[j].login /\ Len(commits[i].login) > 0
       /\ commits[i].name # commits[j].name
  /\ \E i, j \in Human_p0(commits) : i # j /\ commits[i] = cAnon /\ commits[j] = cAnon
  /\ Last.p0.unique = 4
  /\ \E e \in 1..Len(Last.p0.top) :
       Last.p0.top[e] = [author |-> s_unknown, commits |-> 2]
  /\ \E e \in 1..Len(Last.insights.human.top) :
       Last.insights.human.top[e] = [author |-> s_mail, commits |-> 1]
  /\ \E e \in 1..Len(Last.yearly.top) :
       Last.yearly.top[e] = [author |-> s_Al, commits |-> 1]

(* ------------------------------- C18 ---------------------------------- *)

\* avg is what a call that threw would leave: no returned average at all.
NoAverage(avg) == avg.kind = "error"

\* C18: aggregating with a months-counted divisor of zero fails with an error
\* and returns no aggregate (so no average that is zero, infinite or NaN).
C18_ZeroDivisorFailsFast ==
  (Aggregated /\ args.monthsCount = 0) =>
    /\ NoAverage(Last.p0.avg)
    /\ NoAverage(Last.insights.human.avg)
    /\ NoAverage(Last.insights.all.avg)

(* ------------------------------- C20 ---------------------------------- *)

\* floor(total * 100 / months + 1/2), the average in hundredths rounded half up
HalfUp(total, months) ==
  LET q == (100 * total) \div months
      r == (100 * total) % months
  IN [kind |-> "number", cents |-> IF 2 * r >= months THEN q + 1 ELSE q]

\* C20: every returned average is the total divided by the configured
\* monthsCounted of the window, rounded half up to two decimals; 250 commits
\* over 10 months average exactly 25.
C20_AverageUsesConfiguredMonths ==
  /\ roundedAverage(250, 10) = [kind |-> "number", cents |-> 2500]
  /\ \A r \in 1..Len(runs) :
       args.monthsCount \in 1..12 =>
         /\ runs[r].p0.avg = HalfUp(runs[r].p0.total, args.monthsCount)
         /\ runs[r].insights.human.avg = HalfUp(runs[r].insights.human.total, args.monthsCount)
         /\ runs[r].insights.all.avg = HalfUp(runs[r].insights.all.total, args.monthsCount)
         /\ runs[r].yearly.avgPerMonth = HalfUp(runs[r].yearly.totalCommits, args.monthsCount)

\* C20 as amended: so it is for aggregate and aggregateInsightsStyle;
\* aggregateYear has no monthsCounted and divides by the months of the year
\* elapsed when the process started (12 for a year that is over).
C20_AverageUsesConfiguredMonthsButYearly ==
  /\ roundedAverage(250, 10) = [kind |-> "number", cents |-> 2500]
  /\ \A r \in 1..Len(runs) :
       /\ args.monthsCount \in 1..12 =>
            /\ runs[r].p0.avg = HalfUp(runs[r].p0.total, args.monthsCount)
            /\ runs[r].insights.human.avg = HalfUp(runs[r].insights.human.total, args.monthsCount)
            /\ runs[r].insights.all.avg = HalfUp(runs[r].insights.all.total, args.monthsCount)
       /\ runs[r].yearly.avgPerMonth =
            HalfUp(runs[r].yearly.totalCommits, ElapsedAt(args.year, runs[r].now))

\* An average that rounding up and cutting off tell apart was returned, and
\* the clock's divisor of aggregateYear is not the configured one.
C20_Witness ==
  /\ Aggregated
  /\ args.monthsCount \in 1..12
  /\ Last.p0.total > 0
  /\ 2 * ((100 * Last.p0.total) % args.monthsCount) >= args.monthsCount
  /\ Last.yearly.totalCommits > 0
  /\ ElapsedAt(args.year, Last.now) # args.monthsCount

(* ============ what the claims about the whole program speak about ===== *)

\* main is inside an iteration of its for loop, or was when it was rejected.
Iterating == step \in {"meta", "fetchA", "fetchB", "aggA", "aggB", "push", "crashed"}

\* Indices of the log entries of kind ev about the fetch what of project q.
EventsOf(ev, q, what) ==
  {i \in 1..Len(log) : log[i].ev = ev /\ log[i].proj = q /\ log[i].what = what}

\* The fetch what of the current project has returned to main.
Fetched(what) == Iterating /\ EventsOf("fetched", proj, what) # {}

\* The list the server holds for the fetch what of the current project.
ListOf(what) ==
  LET w == WindowOf(gen, IF what = "A" THEN "fetchA" ELSE "fetchB")
  IN Listing(remote[PROJECTS[proj].slug], w.since, w.until)

\* The first n pages of list, one after the other.
RECURSIVE Served(_, _)
Served(list, n) == IF n = 0 THEN <<>> ELSE Served(list, n - 1) \o PageOf(list, n)

\* The array main holds for the fetch what.
Held(what) == IF what = "A" THEN cA ELSE cB

(* ------------------------------- C13 ---------------------------------- *)

\* The requests of the fetch what asked for the pages 1, 2, ... in this order,
\* each but the last answered with a next link, and main holds the pages in
\* the order they were fetched.
FollowedToTheEnd(what) ==
  LET reqs == EventsOf("request", proj, what)
      n == Cardinality(reqs)
      list == ListOf(what)
  IN /\ \A i \in reqs : log[i].page = Cardinality({j \in reqs : j <= i})
     /\ \A k \in 1..(n - 1) : HasNext(list, k)
     /\ ~HasNext(list, n)
     /\ Held(what) = Served(list, n)

\* C13: a commit fetch follows the next link of each answer until an answer
\* has none and hands the caller the pages concatenated in the order fetched.
C13_PagesConcatenatedInOrder ==
  \A what \in {"A", "B"} :
    (Fetched(what) /\ step # "crashed" /\ step # "meta") => FollowedToTheEnd(what)

\* A fetch of three pages has returned.
C13_Witness ==
  /\ Fetched("B")
  /\ step \in {"aggA", "aggB"}
  /\ Cardinality(EventsOf("request", proj, "B")) = 3
  /\ Len(cB) > 2 * PerPage
  /\ cB[1] # cB[Len(cB)]

(* ------------------------------- C14 ---------------------------------- *)

\* main was rejected by the request for a page of the fetch what.
FailedFetch(what) ==
  /\ step = "crashed"
  /\ Len(log) > 0
  /\ log[Len(log)].ev = "request"
  /\ log[Len(log)].what = what

\* No aggregate was computed from the commits of the fetch what of the
\* current project, and nothing of the project was recorded or written.
NothingComputedFrom(what) ==
  /\ EventsOf("aggregate", proj, what) = {}
  /\ gen = "yearly" => EventsOf("aggregate", proj, "B") = {}
  /\ Len(results) = proj - 1
  /\ files = <<>>

\* C14: when a page of a commit fetch is answered with a failure, the caller
\* gets an error and none of the commits of the pages fetched before, and no
\* aggregate is computed from them.
C14_FailedFetchDeliversNothing ==
  \A what \in {"A", "B"} :
    FailedFetch(what) =>
      /\ Len(error) = 1
      /\ Held(what) = <<>>
      /\ NothingComputedFrom(what)

\* C14 as amended: so it is for ghPaginated; listCommits of update.js has by
\* then yielded the commits of the earlier pages, which main holds in its
\* array; in every case main is rejected and computes nothing from them.
C14_FailedFetchComputesNothing ==
  \A what \in {"A", "B"} :
    FailedFetch(what) =>
      /\ Len(error) = 1
      /\ error[1].status = 403 \/ error[1].status = 500
      /\ gen # "insights" => Held(what) = <<>>
      /\ gen = "insights" => Held(what) = Served(ListOf(what), log[Len(log)].page - 1)
      /\ NothingComputedFrom(what)

\* ghPaginated failed at its third page with two pages collected.
C14_Witness ==
  /\ FailedFetch("B")
  /\ gen = "part_000"
  /\ log[Len(log)].page = 3
  /\ Len(out) = 2 * PerPage
  /\ cB = <<>>
  /\ Len(results) = 1

(* ------------------------------- C15 ---------------------------------- *)

\* main was rejected by the request for the metadata of the current project.
FailedMeta ==
  /\ step = "crashed"
  /\ Len(log) > 0
  /\ log[Len(log)].ev = "request"
  /\ log[Len(log)].what = "meta"

\* C15: the metadata of a repository is fetched by a single request; a
\* failure raises an error that carries the status code and the body of the
\* answer, a success returns the metadata and raises nothing.
C15_MetaErrorCarriesStatusAndBody ==
  /\ \A q \in 1..Len(PROJECTS) : Cardinality(EventsOf("request", q, "meta")) <= 1
  /\ FailedMeta =>
       /\ Len(error) = 1
       /\ error[1].status \in Statuses \ {200}
       /\ error[1].body = BodyOf(error[1].status)
  /\ step \in {"fetchA", "fetchB", "aggA", "aggB", "push"} =>
       /\ Len(meta) = 1
       /\ error = <<>>
       /\ Cardinality(EventsOf("request", proj, "meta")) = 1

(* ------------------------------- C16 ---------------------------------- *)

\* Indices of the log entries of kind ev about project q.
EventsOfProject(ev, q) == {i \in 1..Len(log) : log[i].ev = ev /\ log[i].proj = q}

\* No request of project q + 1 is issued before project q was pushed, every
\* project is pushed once, and results are in the order of PROJECTS.
OneProjectAfterTheOther ==
  /\ \A i \in 1..Len(log) :
       (log[i].ev = "request" /\ log[i].proj > 1)
         => \E j \in EventsOfProject("push", log[i].proj - 1) : j < i
  /\ \A i \in 1..Len(log) :
       log[i].ev = "push" => \A j \in EventsOfProject("request", log[i].proj) : j < i
  /\ \A k \in 1..Len(results) : results[k].label = PROJECTS[k].label
  /\ \A q \in 1..Len(PROJECTS) : Cardinality(EventsOfProject("push", q)) <= 1

InputOf(what) == IF gen = "yearly" THEN "A" ELSE what

C17_NoRecordForFailedProject ==
  Len(error) = 1 =>
    /\ step = "crashed"
    /\ \A k \in 1..Len(results) : results[k].label # PROJECTS[proj].label
    /\ \A k \in 1..Len(verify) : verify[k].repo # PROJECTS[proj].slug
    /\ files = <<>>

\* The third project failed after two were pushed.
C17_Witness ==
  /\ Len(error) = 1
  /\ proj = 3
  /\ Len(results) = 2
  /\ log[Len(log)].ev = "request"
  /\ files = <<>>

(* ------------------------------- C19 ---------------------------------- *)

\* bots.json is there and is not an object of lists of logins.
Malformed(file) ==
  /\ file.readable
  /\ \/ ~file.parses
     \/ \E i \in 1..Len(file.entries) : ~file.entries[i].isList

\* C19: a malformed bots.json ends the run at startup with an error, before
\* any request is issued; the run never goes on with the file ignored or with
\* some of its repositories merged.
C19_MalformedDenyFileIsFatal ==
  (gen = "insights" /\ Malformed(botsFile) /\ step # "deny") =>
    /\ step = "crashed"
    /\ Len(error) = 1
    /\ EventsOfProject("request", 1) = {}
    /\ REPO_DENY = REPO_DENY_literal

(* ------------------------------- C21 ---------------------------------- *)

\* Positions of cs whose commit is dated, by d, in YEAR_A or in YEAR_B.
InEitherYear(cs, d(_)) ==
  {i \in 1..Len(cs) : d(cs[i]).has /\ d(cs[i]).year \in {YEAR_A, YEAR_B}}

\* C21: a commit dated in another year than the one aggregated, or without a
\* date the aggregator can use, changes nothing: the result is that of the
\* input without it.  So the totals of the two years computed from one set
\* of commits count every commit at most once.
C21_OtherYearsChangeNothing ==
  Aggregated =>
    /\ \A i \in (1..Len(commits)) \ InYear_p0(commits) :
         /\ Last.p0 = Agg_p0(Remove(commits, i))
         /\ Last.insights = Agg_insights(Remove(commits, i))
    /\ \A i \in (1..Len(commits)) \ InYear_yearly(commits) :
         Last.yearly = Agg_yearly(Remove(commits, i))
    /\ aggregate_p0(commits, MONTHS_A, YEAR_A).total
         + aggregate_p0(commits, MONTHS_B, YEAR_B).total
           = Cardinality(InEitherYear(commits, whenOf))
    /\ aggregateInsightsStyle(commits, args.repoFull, MONTHS_A, YEAR_A).all.total
         + aggregateInsightsStyle(commits, args.repoFull, MONTHS_B, YEAR_B).all.total
           = Cardinality(InEitherYear(commits, whenOf))
    /\ aggregateYear(commits, YEAR_A).totalCommits
         + aggregateYear(commits, YEAR_B).totalCommits
           = Cardinality(InEitherYear(commits, AuthorDate))

\* Commits of both years and one without any date were aggregated.
C21_Witness ==
  /\ Aggregated
  /\ Last.p0.total >= 2
  /\ \E i \in 1..Len(commits) : whenOf(commits[i]).has /\ whenOf(commits[i]).year # args.year
  /\ \E i \in 1..Len(commits) : ~whenOf(commits[i]).has
  /\ \E i \in InYear_p0(commits) : i \notin InYear_yearly(commits)
  /\ aggregate_p0(commits, MONTHS_A, YEAR_A).total > 0
  /\ aggregate_p0(commits, MONTHS_B, YEAR_B).total > 0

(* ------------------------------- C22 ---------------------------------- *)

\* Number of pages in the chain of next links of list.
PagesIn(list) ==
  IF Len(list) = 0 THEN 1 ELSE (Len(list) + PerPage - 1) \div PerPage

\* The requests of the fetch what of project q asked for the pages 1..n, each
\* once and in order.
OneRequestPerPage(q, what) ==
  LET reqs == EventsOf("request", q, what)
  IN \A i \in reqs : log[i].page = Cardinality({j \in reqs : j <= i})

\* A fetch that has returned issued as many requests as the chain has pages; a
\* fetch that has failed issued none after the failing one and no more than
\* the chain has pages.
RequestsMatchChain ==
  \A what \in {"A", "B"} :
    /\ \A q \in 1..Len(PROJECTS) : OneRequestPerPage(q, what)
    /\ (Fetched(what) /\ step # "crashed" /\ step # "meta")
         => Cardinality(EventsOf("request", proj, what)) = PagesIn(ListOf(what))
    /\ FailedFetch(what)
         => /\ Cardinality(EventsOf("request", proj, what)) <= PagesIn(ListOf(what))
            /\ Cardinality(EventsOf("request", proj, what)) = log[Len(log)].page

\* C22: with a finite chain of next links every paginated fetch ends, by
\* returning or by throwing, after one request per page of the chain, and
\* issues no request after an answer that is not a success.
C22_FetchTerminates ==
  /\ []RequestsMatchChain
  /\ (step = "fetchA") ~> (step # "fetchA")
  /\ (step = "fetchB") ~> (step # "fetchB")

\* A fetch over a chain of four pages has returned after four requests.
C22_Witness ==
  /\ gen = "yearly"
  /\ step = "aggA"
  /\ Fetched("A")
  /\ PagesIn(ListOf("A")) = 4
  /\ Cardinality(EventsOf("request", proj, "A")) = 4

(* ------------------------------- C23 ---------------------------------- *)

\* Project q has been fetched, aggregated for both years and pushed.
Completed(q) ==
  /\ EventsOf("fetched", q, "A") # {}
  /\ EventsOf("aggregate", q, "A") # {}
  /\ EventsOf("aggregate", q, "B") # {}
  /\ EventsOfProject("push", q) # {}

\* C23: a file is written only when every project of PROJECTS has been
\* fetched and aggregated without a failure, and holds all of them; a run in
\* which a remote call failed writes no file, whatever it had computed.
C23_FilesOnlyAfterAllProjects ==
  /\ Len(files) > 0 =>
       /\ error = <<>>
       /\ \A q \in 1..Len(PROJECTS) : Completed(q)
       /\ Len(results) = Len(PROJECTS)
       /\ \A f \in 1..Len(files) : Len(files[f].records) = Len(PROJECTS)
       /\ files[1].name = "docs/index.html"
       /\ Len(files) <= 2
       /\ Len(files) = 2 => (gen # "yearly" /\ files[2].name = "docs/verification.json")
  /\ step = "crashed" => files = <<>>
  /\ step = "exit" => Len(files) = (IF gen = "yearly" THEN 1 ELSE 2)

\* Both files are written with the four projects in them.
C23_Witness ==
  /\ step = "exit"
  /\ Len(files) = 2
  /\ Len(files[1].records) = 4
  /\ Len(files[2].records) = 4
  /\ files[2].records[2].repo = SELENIUM

====
